---- MODULE Spec2Model ----
(***************************************************************************)
(* Model of the Exposure Bracketing Organizer: the sequence parser, the    *)
(* metadata collector, the windowed sequence matcher, the action executor  *)
(* and the Start handler that dispatches one worker pass.                  *)
(*                                                                         *)
(* Conventions                                                             *)
(*   Option<T>   None is <<>>, Some(x) is <<x>>.                           *)
(*   Rational32  a pair <<numer, denom>>; every value is built by          *)
(*               Rational32New, which keeps it in lowest terms with a       *)
(*               positive denominator, as num_rational's Ratio::new does.   *)
(*   &str        a sequence of one-character strings.                       *)
(*   PathBuf     a record [stem, ext] of a file directly under the root.    *)
(***************************************************************************)
EXTENDS Integers, Sequences, FiniteSets, TLC

\* ------------------------------------------------------------------ bounds
\* Longest sequence text drawn by the parser specification.
MaxLen == 5
\* Longest file list and longest target sequence drawn by the matcher
\* specification.
MaxFiles == 3
MaxSeqLen == 3
\* Number of entries of the scanned directory, and passes the user starts,
\* in the application's specification.
NumEntries == 3
MaxPasses == 2
\* Number of operating-system failures (an unreadable directory, a refused
\* create_dir, rename, open or write) injected in one behaviour.
MaxFaults == 1
\* Largest step (in tenths of an EV) and image count drawn by the
\* generator's specification.
MaxStep == 12
MaxImages == 7

\* ----------------------------------------------------------------- options
None == <<>>
Some(x) == <<x>>
IsSome(o) == o # <<>>
Unwrap(o) == o[1]

\* --------------------------------------------------------------- rationals
Abs(x) == IF x < 0 THEN -x ELSE x

RECURSIVE Gcd(_, _)
Gcd(a, b) == IF b = 0 THEN Abs(a) ELSE Gcd(b, a % Abs(b))

Lcm(a, b) == IF a = 0 \/ b = 0 THEN 0 ELSE Abs(a * (b \div Gcd(a, b)))

\* A plausible slip: the pair is stored as given, not reduced.
Rational32NewUnreduced(n, d) == <<n, d>>

\* Ratio::new(n, d), d # 0: reduce by the gcd, then make the denominator
\* positive.  (d = 0 panics in the library; callers are modelled with that
\* outcome where they can pass it.)
Rational32New(n, d) ==
    LET g == Gcd(n, d)
        rn == n \div g
        rd == d \div g
    IN  IF n = 0 THEN <<0, 1>>
        ELSE IF rd < 0 THEN <<-rn, -rd>> ELSE <<rn, rd>>

\* Rational32::from(i32)
Rational32From(n) == <<n, 1>>

\* Ratio subtraction: both sides brought to the lcm of the denominators,
\* the difference reduced again.
RatSub(a, b) ==
    LET l == Lcm(a[2], b[2])
    IN  Rational32New(a[1] * (l \div a[2]) - b[1] * (l \div b[2]), l)

\* Zero::is_zero
RatIsZero(r) == r[1] = 0

\* Ratio equality on values kept in lowest terms.
RatEq(a, b) == a[1] = b[1] /\ a[2] = b[2]

\* ----------------------------------------------------------------- strings
Digits == {"0", "1", "2", "3", "4", "5", "6", "7", "8", "9"}
DigitVal(c) ==
    CASE c = "0" -> 0 [] c = "1" -> 1 [] c = "2" -> 2 [] c = "3" -> 3
      [] c = "4" -> 4 [] c = "5" -> 5 [] c = "6" -> 6 [] c = "7" -> 7
      [] c = "8" -> 8 [] c = "9" -> 9
DigitChar(v) ==
    CASE v = 0 -> "0" [] v = 1 -> "1" [] v = 2 -> "2" [] v = 3 -> "3"
      [] v = 4 -> "4" [] v = 5 -> "5" [] v = 6 -> "6" [] v = 7 -> "7"
      [] v = 8 -> "8" [] v = 9 -> "9"

I32Max == 2147483647
I32Min == -2147483647 - 1

\* str::split(c): the pieces between the occurrences of c; the empty
\* string yields one empty piece.
RECURSIVE SplitFrom(_, _, _)
SplitFrom(s, c, cur) ==
    IF s = <<>> THEN <<cur>>
    ELSE IF Head(s) = c THEN <<cur>> \o SplitFrom(Tail(s), c, <<>>)
    ELSE SplitFrom(Tail(s), c, Append(cur, Head(s)))
Split(s, c) == SplitFrom(s, c, <<>>)

\* str::trim(): whitespace removed at both ends.
RECURSIVE TrimStart(_)
TrimStart(s) ==
    IF s # <<>> /\ Head(s) = " " THEN TrimStart(Tail(s)) ELSE s
RECURSIVE TrimEnd(_)
TrimEnd(s) ==
    IF s # <<>> /\ s[Len(s)] = " " THEN TrimEnd(SubSeq(s, 1, Len(s) - 1)) ELSE s
\* A plausible slip: the token is used untrimmed.
TrimNothing(s) == s
Trim(s) == TrimEnd(TrimStart(s))

\* The digits of s read left to right onto acc, None at the first
\* non-digit.
RECURSIVE ParseDigits(_, _)
ParseDigits(s, acc) ==
    IF s = <<>> THEN Some(acc)
    ELSE IF Head(s) \notin Digits THEN None
    ELSE ParseDigits(Tail(s), acc * 10 + DigitVal(Head(s)))

\* <i32 as FromStr>::from_str: an optional sign, then at least one digit,
\* nothing else, the value within i32.
ParseI32(s) ==
    IF s = <<>> THEN None
    ELSE LET neg  == Head(s) = "-"
             body == IF Head(s) \in {"+", "-"} THEN Tail(s) ELSE s
             mag  == IF body = <<>> THEN None ELSE ParseDigits(body, 0)
         IN  IF mag = None THEN None
             ELSE LET v == IF neg THEN -Unwrap(mag) ELSE Unwrap(mag)
                  IN  IF v > I32Max \/ v < I32Min THEN None ELSE Some(v)

\* <i32 as Display>::fmt
RECURSIVE NatToString(_)
NatToString(n) ==
    IF n < 10 THEN <<DigitChar(n)>>
    ELSE Append(NatToString(n \div 10), DigitChar(n % 10))
I32ToString(n) == IF n < 0 THEN <<"-">> \o NatToString(-n) ELSE NatToString(n)

\* ------------------------------------------------------------------ parser
\* A plausible slip: numerator and denominator taken in the wrong order.
ParseTokenSwapped(s) ==
    LET parts == Split(s, "/")
    IN  IF Len(parts) = 2
        THEN LET n == ParseI32(parts[1])
                 d == ParseI32(parts[2])
             IN  IF n = None \/ d = None THEN None
                 ELSE IF Unwrap(d) # 0 /\ Unwrap(n) # 0
                      THEN Some(Rational32New(Unwrap(d), Unwrap(n)))
                      ELSE None
        ELSE LET v == ParseI32(s)
             IN  IF v = None THEN None ELSE Some(Rational32From(Unwrap(v)))

\* The filter_map closure of parse_exposure_sequence on one trimmed token.
ParseToken(s) ==
    LET parts == Split(s, "/")
    IN  IF Len(parts) = 2
        THEN LET n == ParseI32(parts[1])
                 d == ParseI32(parts[2])
             IN  IF n = None \/ d = None THEN None
                 ELSE IF Unwrap(d) # 0
                      THEN Some(Rational32New(Unwrap(n), Unwrap(d)))
                      ELSE None
        ELSE LET v == ParseI32(s)
             IN  IF v = None THEN None ELSE Some(Rational32From(Unwrap(v)))

RECURSIVE ParseTokens(_)
ParseTokens(toks) ==
    IF toks = <<>> THEN <<>>
    ELSE ParseToken(Trim(Head(toks))) \o ParseTokens(Tail(toks))

parse_exposure_sequence(sequence_str) == ParseTokens(Split(sequence_str, ","))

\* The text the "Apply Sequence" button builds from a list of rationals:
\* each written numer/denom, joined by ", ".
RECURSIVE SerializeSequence(_)
SerializeSequence(rs) ==
    IF rs = <<>> THEN <<>>
    ELSE LET r    == rs[Len(rs)]
             init == SerializeSequence(SubSeq(rs, 1, Len(rs) - 1))
             sep  == IF init # <<>> THEN <<",", " ">> ELSE <<>>
         IN  init \o sep \o I32ToString(r[1]) \o <<"/">> \o I32ToString(r[2])

\* --------------------------------------------------------------- generator
\* f32::round of num/den (den > 0): to the nearest integer, halves away
\* from zero.  The products rounded here are whole numbers up to the error
\* of f32 arithmetic, which at these magnitudes is far below one half.
Round(num, den) ==
    IF num >= 0 THEN (2 * num + den) \div (2 * den)
    ELSE -((2 * (-num) + den) \div (2 * den))

\* ev_step * index as f32 * 10.0, rounded, for a step given in tenths.
RoundedEv(step, index) == Round(step * index * 10, 10)

Str_over10 == <<"/", "1", "0">>

\* Vec::sort on i32: insertion of the head into the sorted tail.
RECURSIVE SortAsc(_)
SortAsc(xs) ==
    IF xs = <<>> THEN <<>>
    ELSE LET rest  == SortAsc(Tail(xs))
             below == SelectSeq(rest, LAMBDA y : y < Head(xs))
             above == SelectSeq(rest, LAMBDA y : y >= Head(xs))
         IN  below \o <<Head(xs)>> \o above

\* [String]::join(", ")
RECURSIVE Join(_)
Join(strs) ==
    IF strs = <<>> THEN <<>>
    ELSE IF Len(strs) = 1 THEN strs[1]
    ELSE strs[1] \o <<",", " ">> \o Join(Tail(strs))

\* A plausible slip: each pair emitted as (positive, negative).
RECURSIVE ZeroPlusMinus(_, _, _)
ZeroPlusMinus(step, n, i) ==
    IF i > (n - 1) \div 2 THEN <<>>
    ELSE << I32ToString(RoundedEv(step, i)) \o Str_over10,
            <<"-">> \o I32ToString(RoundedEv(step, i)) \o Str_over10 >>
         \o ZeroPlusMinus(step, n, i + 1)

\* The loop of the ZeroMinusPlus arm from its i-th iteration on: the pair
\* "-ev/10", "ev/10" for each i up to (num_images - 1) / 2.
RECURSIVE ZeroMinusPlus(_, _, _)
ZeroMinusPlus(step, n, i) ==
    IF i > (n - 1) \div 2 THEN <<>>
    ELSE << <<"-">> \o I32ToString(RoundedEv(step, i)) \o Str_over10,
            I32ToString(RoundedEv(step, i)) \o Str_over10 >>
         \o ZeroMinusPlus(step, n, i + 1)

\* generate_exposure_sequence, for a step given in tenths of an EV.
generate_exposure_sequence(step, n, order) ==
    IF n = 0 THEN <<>>
    ELSE LET exposures ==
                 [k \in 1..n |-> RoundedEv(step, (k - 1) - ((n - 1) \div 2))]
         IN  IF order = "ZeroMinusPlus"
             THEN Join(<< <<"0">> \o Str_over10 >> \o ZeroMinusPlus(step, n, 1))
             ELSE LET sorted_exposures == SortAsc(exposures)
                  IN  Join([k \in 1..n |->
                              I32ToString(sorted_exposures[k]) \o Str_over10])

\* ------------------------------------------------------------------- state
VARIABLES
    \* ExposureBracketingOrganizerApp fields (the widgets' values)
    picked_folder,              \* None, or Some of "root" / "missing"
    exposure_bias_sequence,     \* the sequence text
    selected_action,            \* "MoveToFolder" | "SaveSequencesToTextfile"
    ev_mode,                    \* "Absolute" | "Delta"
    filter_by_auto_bracket,
    show_error_messagebox,
    extensions,                 \* the accepted extensions
    \* ExposureSettings: the step in tenths of an EV, the image count and
    \* the order the sequence generator is called with
    ev_step, num_images, bracket_order,
    \* the atomics shared by the UI and the worker
    running, total_files, processed_files, exposure_bracketings_found,
    \* the worker thread: its position and the values moved into it
    pc, w_folder, sequence, w_action, w_ev_mode, w_filter,
    entries,                    \* what is left of the read_dir iterator
    files_with_metadata, matching_sequences, next_run,
    \* the filesystem: the entries directly under the root, in listing order,
    \* and the lines of sequences.txt
    fs_root, manifest,
    \* the number of warn! lines logged so far
    warnings,
    \* operating-system failures injected so far (bounds the exploration)
    faults,
    \* live worker threads, and passes dispatched so far (bounds the
    \* exploration)
    threads, passes

uiVars     == <<picked_folder, exposure_bias_sequence, selected_action, ev_mode,
                filter_by_auto_bracket, show_error_messagebox>>
sharedVars == <<running, total_files, processed_files, exposure_bracketings_found>>
capturedVars == <<w_folder, sequence, w_action, w_ev_mode, w_filter>>
workVars   == <<entries, files_with_metadata, matching_sequences, next_run>>
fsVars     == <<fs_root, manifest>>
boundVars  == <<faults, passes>>
settingsVars == <<extensions, ev_step, num_images, bracket_order>>
vars == <<uiVars, settingsVars, sharedVars, pc, capturedVars, workVars, fsVars,
          warnings, threads, boundVars>>

\* -------------------------------------------------------------- file names
Str_cr2 == <<"c", "r", "2">>
Str_CR2 == <<"C", "R", "2">>
Str_nef == <<"n", "e", "f">>
Str_txt == <<"t", "x", "t">>

\* The accepted extensions the application is constructed with (a part of
\* the list: the rest differ only in their letters).
DefaultExtensions == <<Str_cr2, Str_nef>>

\* A directory entry.  stem/ext: its name (ext None for a name without a
\* dot); is_file; exif: None when no metadata can be read from the file,
\* else Some([bias, mode]) with the raw EXIF pair and mode code, each
\* optional; children: the files inside it when it is a directory.
FileEntry(stem, ext, exif) ==
    [stem |-> stem, ext |-> Some(ext), is_file |-> TRUE, exif |-> exif,
     children |-> {}]
DirEntry(stem) ==
    [stem |-> stem, ext |-> None, is_file |-> FALSE, exif |-> None,
     children |-> {}]
Exif(bias, mode) == Some([bias |-> bias, mode |-> mode])

\* entry.path(): the path names the entry by stem and extension.
PathOf(e) == [stem |-> e.stem, ext |-> e.ext]

\* ------------------------------------------------------- extension filter
\* char::to_ascii_lowercase / char::to_lowercase on the letters used here.
LowerChar(c) ==
    CASE c = "C" -> "c" [] c = "R" -> "r" [] c = "N" -> "n" [] c = "E" -> "e"
      [] c = "F" -> "f" [] c = "T" -> "t" [] c = "X" -> "x" [] OTHER -> c
ToLowercase(s) == [i \in 1..Len(s) |-> LowerChar(s[i])]
EqIgnoreAsciiCase(a, b) == ToLowercase(a) = ToLowercase(b)

\* The filter closure of count_files_in_directory.
CountsAsFile(e, exts) ==
    /\ e.is_file
    /\ IsSome(e.ext)
    /\ \E i \in 1..Len(exts) : EqIgnoreAsciiCase(exts[i], Unwrap(e.ext))

RECURSIVE CountMatching(_, _)
CountMatching(listing, exts) ==
    IF listing = <<>> THEN 0
    ELSE (IF CountsAsFile(Head(listing), exts) THEN 1 ELSE 0)
         + CountMatching(Tail(listing), exts)

\* count_files_in_directory; readable: whether read_dir succeeds.
count_files_in_directory(listing, readable, exts) ==
    IF ~readable THEN 0 ELSE CountMatching(listing, exts)

\* ext_match of collect_files_with_metadata.
ExtMatch(e, exts) ==
    /\ IsSome(e.ext)
    /\ \E i \in 1..Len(exts) : exts[i] = ToLowercase(Unwrap(e.ext))

\* ----------------------------------------------------------------- matcher
\* A matched run is a slice of the file list: its offset (from 0) and length.
Slice(files, run) == SubSeq(files, run.offset + 1, run.offset + run.len)

\* sequence.iter().position(|r| r.is_zero())  (index from 0)
ZeroBiasIndex(seq) ==
    IF \E i \in 1..Len(seq) : RatIsZero(seq[i])
    THEN Some((CHOOSE i \in 1..Len(seq) :
                  /\ RatIsZero(seq[i])
                  /\ \A j \in 1..(i - 1) : ~RatIsZero(seq[j])) - 1)
    ELSE None

\* EvMode::Absolute: every record has a bias equal to the target's value.
AbsoluteMatch(file_group, seq) ==
    \A i \in 1..Len(seq) :
        /\ IsSome(file_group[i].exposure_bias)
        /\ RatEq(Unwrap(file_group[i].exposure_bias), seq[i])

\* A plausible slip: the base is taken from the first record of the window,
\* not from the record at the zero's index.
DeltaMatchFirstBase(file_group, seq, z) ==
    /\ IsSome(file_group[1].exposure_bias)
    /\ \A i \in 1..Len(seq) :
          /\ IsSome(file_group[i].exposure_bias)
          /\ RatEq(RatSub(Unwrap(file_group[i].exposure_bias),
                          Unwrap(file_group[1].exposure_bias)), seq[i])

\* A plausible slip: the bias is compared without subtracting the base.
DeltaMatchNoBase(file_group, seq, z) ==
    /\ IsSome(file_group[z + 1].exposure_bias)
    /\ \A i \in 1..Len(seq) :
          /\ IsSome(file_group[i].exposure_bias)
          /\ RatEq(Unwrap(file_group[i].exposure_bias), seq[i])

\* EvMode::Delta with the zero at index z: the record at z has a bias (the
\* base), and every record's bias minus the base equals the target's value.
DeltaMatch(file_group, seq, z) ==
    /\ IsSome(file_group[z + 1].exposure_bias)
    /\ \A i \in 1..Len(seq) :
          /\ IsSome(file_group[i].exposure_bias)
          /\ RatEq(RatSub(Unwrap(file_group[i].exposure_bias),
                          Unwrap(file_group[z + 1].exposure_bias)), seq[i])

\* A plausible slip: delta mode without a zero falls back to absolute
\* matching.
WindowMatchesFallback(file_group, seq, mode) ==
    IF mode = "Absolute" THEN AbsoluteMatch(file_group, seq)
    ELSE LET z == ZeroBiasIndex(seq)
         IN  IF z = None THEN AbsoluteMatch(file_group, seq)
             ELSE DeltaMatch(file_group, seq, Unwrap(z))

\* The body of the loop over the windows: sequence_match, FALSE where the
\* loop continues without a match.
WindowMatches(file_group, seq, mode) ==
    IF mode = "Absolute" THEN AbsoluteMatch(file_group, seq)
    ELSE LET z == ZeroBiasIndex(seq)
         IN  IF z = None THEN FALSE
             ELSE DeltaMatch(file_group, seq, Unwrap(z))

\* The matching windows among those at offsets k, k + 1, ..., in order.
RECURSIVE MatchFrom(_, _, _, _)
MatchFrom(files, seq, mode, k) ==
    IF k + Len(seq) > Len(files) THEN <<>>
    ELSE LET run == [offset |-> k, len |-> Len(seq)]
         IN  (IF WindowMatches(Slice(files, run), seq, mode)
              THEN <<run>> ELSE <<>>)
             \o MatchFrom(files, seq, mode, k + 1)

\* A plausible slip: the search resumes after a matched window (chunks that
\* do not overlap).
RECURSIVE MatchFromSkipping(_, _, _, _)
MatchFromSkipping(files, seq, mode, k) ==
    IF k + Len(seq) > Len(files) THEN <<>>
    ELSE LET run == [offset |-> k, len |-> Len(seq)]
         IN  IF WindowMatches(Slice(files, run), seq, mode)
             THEN <<run>> \o MatchFromSkipping(files, seq, mode, k + Len(seq))
             ELSE MatchFromSkipping(files, seq, mode, k + 1)
find_matching_sequences_skipping(files, seq, mode) ==
    IF Len(seq) = 0 \/ Len(files) < Len(seq) THEN <<>>
    ELSE MatchFromSkipping(files, seq, mode, 0)

\* The warnings find_matching_sequences logs: in delta mode without a zero,
\* one per window.
MatchWarnings(files, seq, mode) ==
    IF Len(seq) = 0 THEN 1
    ELSE IF Len(files) < Len(seq) THEN 0
    ELSE IF mode = "Delta" /\ ZeroBiasIndex(seq) = None
         THEN Len(files) - Len(seq) + 1
         ELSE 0

find_matching_sequences(files, seq, mode) ==
    IF Len(seq) = 0 THEN <<>>
    ELSE IF Len(files) < Len(seq) THEN <<>>
    ELSE MatchFrom(files, seq, mode, 0)

\* --------------------------------------------------------------- collector
\* Whether the entry reaches Rational32::new with a zero denominator, which
\* panics: a regular file with an accepted extension whose metadata decodes
\* to a bias pair n/0.
CollectPanics(e, exts) ==
    /\ e.is_file
    /\ ExtMatch(e, exts)
    /\ IsSome(e.exif)
    /\ IsSome(Unwrap(e.exif).bias)
    /\ Unwrap(Unwrap(e.exif).bias)[2] = 0

\* A plausible slip: the filter skips only a mode that is present and is
\* not 2, and a file without a bias is skipped.
CollectedRecordLax(e, exts, filter) ==
    IF ~e.is_file \/ ~ExtMatch(e, exts) \/ e.exif = None THEN None
    ELSE LET x == Unwrap(e.exif)
         IN  IF x.bias = None THEN None
             ELSE IF filter /\ x.mode # None /\ Unwrap(x.mode) # 2 THEN None
             ELSE Some([path |-> PathOf(e),
                        exposure_bias |->
                            Some(Rational32New(Unwrap(x.bias)[1], Unwrap(x.bias)[2])),
                        exposure_mode |-> x.mode])

\* The record one loop iteration of collect_files_with_metadata pushes, None
\* when it pushes nothing.
CollectedRecord(e, exts, filter) ==
    IF ~e.is_file \/ ~ExtMatch(e, exts) \/ e.exif = None THEN None
    ELSE LET x    == Unwrap(e.exif)
             bias == IF x.bias = None THEN None
                     ELSE Some(Rational32New(Unwrap(x.bias)[1], Unwrap(x.bias)[2]))
         IN  IF filter /\ (x.mode = None \/ Unwrap(x.mode) # 2) THEN None
             ELSE Some([path |-> PathOf(e), exposure_bias |-> bias,
                        exposure_mode |-> x.mode])

\* ---------------------------------------------------------------- executor
\* Whether an entry with exactly this name (no extension) is under the root.
NameExists(root, name) ==
    \E i \in 1..Len(root) : root[i].stem = name /\ root[i].ext = None

FileExists(root, path) ==
    \E i \in 1..Len(root) : root[i].is_file /\ PathOf(root[i]) = path

\* fs::create_dir(root/name) having succeeded.
CreateDir(root, name) == Append(root, DirEntry(name))

\* A plausible slip: the file is copied into the folder, not moved.
CopyInto(root, path, folder) ==
    [i \in 1..Len(root) |->
        IF ~root[i].is_file /\ root[i].stem = folder /\ root[i].ext = None
        THEN [root[i] EXCEPT !.children = @ \cup {path}]
        ELSE root[i]]

\* fs::rename(root/path, root/folder/path) having succeeded.
Rename(root, path, folder) ==
    LET kept == SelectSeq(root, LAMBDA e : ~(e.is_file /\ PathOf(e) = path))
    IN  [i \in 1..Len(kept) |->
            IF ~kept[i].is_file /\ kept[i].stem = folder /\ kept[i].ext = None
            THEN [kept[i] EXCEPT !.children = @ \cup {path}]
            ELSE kept[i]]

\* A plausible slip: the loop is left at the first rename that fails.
RECURSIVE MoveFilesStopping(_, _, _, _, _)
MoveFilesStopping(root, folder, run_files, i, io_ok) ==
    IF i > Len(run_files) THEN root
    ELSE IF io_ok[i] /\ FileExists(root, run_files[i].path)
         THEN MoveFilesStopping(Rename(root, run_files[i].path, folder),
                                folder, run_files, i + 1, io_ok)
         ELSE root

\* The loop over the run's files from the i-th on; io_ok[i]: the operating
\* system lets the i-th rename through (it still fails when the file is no
\* longer at its path).
RECURSIVE MoveFiles(_, _, _, _, _)
MoveFiles(root, folder, run_files, i, io_ok) ==
    IF i > Len(run_files) THEN root
    ELSE MoveFiles(IF io_ok[i] /\ FileExists(root, run_files[i].path)
                   THEN Rename(root, run_files[i].path, folder)
                   ELSE root,
                   folder, run_files, i + 1, io_ok)

\* Action::MoveToFolder: the root after the action.  create_ok: the
\* operating system lets create_dir through (it still fails when the name
\* exists).
MoveToFolder(root, run_files, create_ok, io_ok) ==
    IF run_files = <<>> THEN root
    ELSE LET folder == run_files[1].path.stem
         IN  IF create_ok /\ ~NameExists(root, folder)
             THEN MoveFiles(CreateDir(root, folder), folder, run_files, 1, io_ok)
             ELSE root

\* The warnings Action::MoveToFolder logs: one when the folder is not
\* created, else one per file that is not moved.
MoveToFolderWarnings(root, run_files, create_ok, io_ok) ==
    IF run_files = <<>> THEN 0
    ELSE IF ~(create_ok /\ ~NameExists(root, run_files[1].path.stem)) THEN 1
    ELSE Cardinality({i \in 1..Len(run_files) :
                         ~(io_ok[i] /\ FileExists(root, run_files[i].path))})

\* The lines the run writes: each file's path, then one blank line; a
\* failed writeln writes nothing.
RECURSIVE PathLines(_, _, _)
PathLines(run_files, i, io_ok) ==
    IF i > Len(run_files) THEN <<>>
    ELSE (IF io_ok[i] THEN <<Some(run_files[i].path)>> ELSE <<>>)
         \o PathLines(run_files, i + 1, io_ok)

\* A plausible slip: the file is opened for writing, not for appending.
SaveSequencesTruncating(lines, run_files, open_ok, io_ok) ==
    IF ~open_ok THEN lines
    ELSE PathLines(run_files, 1, io_ok)
         \o (IF io_ok[Len(run_files) + 1] THEN <<None>> ELSE <<>>)

\* Action::SaveSequencesToTextfile: the lines of sequences.txt after the
\* action.
SaveSequencesToTextfile(lines, run_files, open_ok, io_ok) ==
    IF ~open_ok THEN lines
    ELSE lines \o PathLines(run_files, 1, io_ok)
         \o (IF io_ok[Len(run_files) + 1] THEN <<None>> ELSE <<>>)

\* The warnings Action::SaveSequencesToTextfile logs: one when the file is
\* not opened, else one per failed writeln.
SaveSequencesWarnings(run_files, open_ok, io_ok) ==
    IF ~open_ok THEN 1
    ELSE Cardinality({i \in 1..(Len(run_files) + 1) : ~io_ok[i]})

ManifestPath == [stem |-> "sequences", ext |-> Some(Str_txt)]

\* OpenOptions::create(true): sequences.txt is created when it is missing.
CreateManifest(root, open_ok) ==
    IF open_ok /\ ~FileExists(root, ManifestPath)
    THEN Append(root, FileEntry("sequences", Str_txt, None))
    ELSE root

\* ------------------------------------------------------------ environment
StemAt(i) ==
    CASE i = 1 -> "a" [] i = 2 -> "b" [] i = 3 -> "c" [] i = 4 -> "d"
      [] i = 5 -> "e" [] OTHER -> "f"

\* The kinds of directory entry the application's specification draws from.
EntryOfKind(k, stem) ==
    CASE k = "ev0"      -> FileEntry(stem, Str_cr2, Exif(Some(<<0, 10>>), Some(2)))
      [] k = "ev1"      -> FileEntry(stem, Str_cr2, Exif(Some(<<10, 10>>), Some(2)))
      [] k = "nobias"   -> FileEntry(stem, Str_cr2, Exif(None, Some(2)))
      [] k = "manual"   -> FileEntry(stem, Str_CR2, Exif(Some(<<0, 10>>), Some(1)))
      [] k = "nomode"   -> FileEntry(stem, Str_nef, Exif(Some(<<10, 10>>), None))
      [] k = "undecoded" -> FileEntry(stem, Str_cr2, None)
      [] k = "text"     -> FileEntry(stem, Str_txt, None)
      [] k = "subdir"   -> DirEntry(stem)
      [] k = "zeroden"  -> FileEntry(stem, Str_cr2, Exif(Some(<<1, 0>>), Some(2)))
Kinds == {"ev0", "ev1", "manual", "subdir", "zeroden"}

Directories ==
    {[i \in 1..NumEntries |-> EntryOfKind(ks[i], StemAt(i))] :
        ks \in [1..NumEntries -> Kinds]}

\* The sequence texts the user may have typed.
Texts ==
    { <<"0", "/", "1", "0", ",", " ", "1", "0", "/", "1", "0">>,  \* 0/10, 10/10
      <<"0", ",", "0">>,                                          \* 0,0
      <<"1", ",", " ", "2", "/", "2">>,                           \* 1, 2/2
      <<"1">>,                                                    \* 1
      <<"x", ",", "1", "/", "0">> }                               \* x,1/0
Actions == {"MoveToFolder", "SaveSequencesToTextfile"}
EvModes == {"Absolute", "Delta"}

\* ------------------------------------------------------------------- Init
\* The application after construction and after the user has set the
\* widgets: a folder picked or not, a sequence text, a mode, a filter and
\* an action; no pass has run.
Init ==
    /\ extensions = DefaultExtensions
    /\ ev_step = 10
    /\ num_images = 3
    /\ bracket_order = "ZeroMinusPlus"
    /\ picked_folder \in {None, Some("root"), Some("missing")}
    /\ exposure_bias_sequence \in Texts
    /\ selected_action \in Actions
    /\ ev_mode \in EvModes
    /\ filter_by_auto_bracket \in BOOLEAN
    /\ show_error_messagebox = FALSE
    /\ running = FALSE
    /\ total_files = 0
    /\ processed_files = 0
    /\ exposure_bracketings_found = 0
    /\ pc = "idle"
    /\ w_folder = "root"
    /\ sequence = <<>>
    /\ w_action = "MoveToFolder"
    /\ w_ev_mode = "Delta"
    /\ w_filter = TRUE
    /\ entries = <<>>
    /\ files_with_metadata = <<>>
    /\ matching_sequences = <<>>
    /\ next_run = 1
    /\ fs_root \in Directories
    /\ manifest = <<>>
    /\ warnings = 0
    /\ faults = 0
    /\ threads = 0
    /\ passes = 0

\* ------------------------------------------------------------- UI actions
\* A plausible slip: the button stays enabled while a pass runs.
StartEnabledWhileRunning == IsSome(picked_folder)

\* start_enabled: no pass is running and a folder is picked.
StartEnabled == ~running /\ IsSome(picked_folder)

\* A plausible slip: only the empty sequence is rejected.
SequenceRejectedEmptyOnly(parsed) == Len(parsed) = 0

\* sequence.is_empty() || sequence.len() == 1
SequenceRejected(parsed) == Len(parsed) = 0 \/ Len(parsed) = 1

\* The Start button's handler; the button takes clicks only while no pass
\* runs and a folder is picked.
UIStart ==
    /\ UNCHANGED settingsVars
    /\ StartEnabled
    /\ LET parsed == parse_exposure_sequence(exposure_bias_sequence)
       IN  IF SequenceRejected(parsed)
           THEN /\ show_error_messagebox' = TRUE
                /\ UNCHANGED <<picked_folder, exposure_bias_sequence,
                               selected_action, ev_mode, filter_by_auto_bracket>>
                /\ UNCHANGED <<sharedVars, pc, capturedVars, workVars, fsVars,
                               warnings, threads, boundVars>>
           ELSE /\ passes < MaxPasses
                /\ running' = TRUE
                /\ total_files' = 0
                /\ processed_files' = 0
                /\ exposure_bracketings_found' = 0
                /\ pc' = "count"
                /\ w_folder' = Unwrap(picked_folder)
                /\ sequence' = parsed
                /\ w_action' = selected_action
                /\ w_ev_mode' = ev_mode
                /\ w_filter' = filter_by_auto_bracket
                /\ entries' = <<>>
                /\ files_with_metadata' = <<>>
                /\ matching_sequences' = <<>>
                /\ next_run' = 1
                /\ threads' = threads + 1
                /\ passes' = passes + 1
                /\ UNCHANGED <<uiVars, fsVars, warnings, faults>>

\* The sequence text edited by the user.  The text is read by the Start
\* handler alone, which runs only while no pass does: an edit made during a
\* pass has the effect of the same edit made once the pass is over, and is
\* taken then.
UIEditText ==
    /\ UNCHANGED settingsVars
    /\ ~running
    /\ \E text \in Texts :
          /\ text # exposure_bias_sequence
          /\ exposure_bias_sequence' = text
    /\ UNCHANGED <<picked_folder, selected_action, ev_mode, filter_by_auto_bracket,
                   show_error_messagebox>>
    /\ UNCHANGED <<sharedVars, pc, capturedVars, workVars, fsVars, warnings,
                   threads, boundVars>>

\* The error window closed by the user.
UIDismissError ==
    /\ UNCHANGED settingsVars
    /\ show_error_messagebox
    /\ show_error_messagebox' = FALSE
    /\ UNCHANGED <<picked_folder, exposure_bias_sequence, selected_action,
                   ev_mode, filter_by_auto_bracket>>
    /\ UNCHANGED <<sharedVars, pc, capturedVars, workVars, fsVars, warnings,
                   threads, boundVars>>

\* --------------------------------------------------------- worker actions
\* n more operating-system failures injected, within the bound.
Injected(n) == faults + n <= MaxFaults /\ faults' = faults + n

\* The outcomes drawn for one action name only operations the action
\* attempts: nothing after a refused create_dir or open, and no write of a
\* blank line when moving.
Attempted(action, dir_ok, io_ok) ==
    /\ ~dir_ok => \A i \in DOMAIN io_ok : io_ok[i]
    /\ action = "MoveToFolder" => io_ok[Len(io_ok)]
Refusals(dir_ok, io_ok) ==
    (IF dir_ok THEN 0 ELSE 1) + Cardinality({i \in DOMAIN io_ok : ~io_ok[i]})

\* root.exists(), count_files_in_directory and the store of the total.
WorkerCount ==
    /\ UNCHANGED settingsVars
    /\ pc = "count"
    /\ IF w_folder = "root"
       THEN \E readable \in BOOLEAN :
               /\ Injected(IF readable THEN 0 ELSE 1)
               /\ total_files' =
                     count_files_in_directory(fs_root, readable, extensions)
               /\ pc' = "read_dir"
               /\ UNCHANGED warnings
       ELSE /\ pc' = "finish"
            /\ warnings' = warnings + 1
            /\ UNCHANGED <<total_files, faults>>
    /\ UNCHANGED <<uiVars, running, processed_files, exposure_bracketings_found,
                   capturedVars, workVars, fsVars, threads, passes>>

\* fs::read_dir at the head of collect_files_with_metadata.
WorkerReadDir ==
    /\ UNCHANGED settingsVars
    /\ pc = "read_dir"
    /\ \E readable \in BOOLEAN :
          /\ Injected(IF readable THEN 0 ELSE 1)
          /\ IF readable /\ fs_root # <<>>
             THEN entries' = fs_root /\ pc' = "collect"
             ELSE entries' = <<>> /\ pc' = "match"
          /\ warnings' = IF readable THEN warnings ELSE warnings + 1
    /\ UNCHANGED <<uiVars, sharedVars, capturedVars, files_with_metadata,
                   matching_sequences, next_run, fsVars, threads, passes>>

\* One iteration of the loop over the directory entries.  fs::metadata
\* and created() are called for a file with a matching extension; when
\* either fails the file is skipped without a word.
WorkerCollectEntry ==
    /\ UNCHANGED settingsVars
    /\ pc = "collect"
    /\ entries # <<>>
    /\ LET e == Head(entries)
       IN  \E stat_ok \in BOOLEAN :
              /\ ~stat_ok => (e.is_file /\ ExtMatch(e, extensions))
              /\ Injected(IF stat_ok THEN 0 ELSE 1)
              /\ processed_files' = processed_files + 1
              /\ entries' = Tail(entries)
              /\ IF stat_ok /\ CollectPanics(e, extensions)
                 THEN /\ pc' = "panicked"
                      /\ threads' = threads - 1
                      /\ UNCHANGED files_with_metadata
                 ELSE /\ pc' = IF Tail(entries) = <<>> THEN "match" ELSE "collect"
                      /\ files_with_metadata' = files_with_metadata
                            \o (IF stat_ok
                                THEN CollectedRecord(e, extensions, w_filter)
                                ELSE None)
                      /\ UNCHANGED threads
    /\ UNCHANGED <<uiVars, running, total_files, exposure_bracketings_found,
                   capturedVars, matching_sequences, next_run, fsVars, warnings,
                   passes>>

\* find_matching_sequences on the collected list.
WorkerMatch ==
    /\ UNCHANGED settingsVars
    /\ pc = "match"
    /\ matching_sequences' =
          find_matching_sequences(files_with_metadata, sequence, w_ev_mode)
    /\ warnings' = warnings + MatchWarnings(files_with_metadata, sequence, w_ev_mode)
    /\ pc' = IF matching_sequences' = <<>> THEN "finish" ELSE "act"
    /\ UNCHANGED <<uiVars, sharedVars, capturedVars, entries, files_with_metadata,
                   next_run, fsVars, threads, boundVars>>

\* One iteration of the loop over the matched runs: the counter, then
\* execute_action_on_sequence.
WorkerRun ==
    /\ UNCHANGED settingsVars
    /\ pc = "act"
    /\ LET run       == matching_sequences[next_run]
           run_files == Slice(files_with_metadata, run)
       IN  \E dir_ok \in BOOLEAN, io_ok \in [1..(run.len + 1) -> BOOLEAN] :
              /\ Attempted(w_action, dir_ok, io_ok)
              /\ Injected(Refusals(dir_ok, io_ok))
              /\ IF w_action = "MoveToFolder"
                 THEN /\ fs_root' = MoveToFolder(fs_root, run_files, dir_ok, io_ok)
                      /\ warnings' = warnings
                            + MoveToFolderWarnings(fs_root, run_files, dir_ok, io_ok)
                      /\ UNCHANGED manifest
                 ELSE /\ fs_root' = CreateManifest(fs_root, dir_ok)
                      /\ manifest' =
                            SaveSequencesToTextfile(manifest, run_files, dir_ok, io_ok)
                      /\ warnings' = warnings
                            + SaveSequencesWarnings(run_files, dir_ok, io_ok)
    /\ exposure_bracketings_found' = exposure_bracketings_found + 1
    /\ next_run' = next_run + 1
    /\ pc' = IF next_run = Len(matching_sequences) THEN "finish" ELSE "act"
    /\ UNCHANGED <<uiVars, running, total_files, processed_files, capturedVars,
                   entries, files_with_metadata, matching_sequences, threads, passes>>

\* A plausible slip: the worker zeroes the progress counters as it ends.
WorkerFinishResetting ==
    /\ UNCHANGED settingsVars
    /\ pc = "finish"
    /\ running' = FALSE
    /\ pc' = "idle"
    /\ threads' = threads - 1
    /\ total_files' = 0
    /\ processed_files' = 0
    /\ exposure_bracketings_found' = 0
    /\ UNCHANGED <<uiVars, capturedVars, workVars, fsVars, warnings, boundVars>>

\* The worker's last statement: the running flag cleared.
WorkerFinish ==
    /\ UNCHANGED settingsVars
    /\ pc = "finish"
    /\ running' = FALSE
    /\ pc' = "idle"
    /\ threads' = threads - 1
    /\ UNCHANGED <<uiVars, total_files, processed_files, exposure_bracketings_found,
                   capturedVars, workVars, fsVars, warnings, boundVars>>

Next ==
    \/ UIStart
    \/ UIEditText
    \/ UIDismissError
    \/ WorkerCount
    \/ WorkerReadDir
    \/ WorkerCollectEntry
    \/ WorkerMatch
    \/ WorkerRun
    \/ WorkerFinish

Spec == Init /\ [][Next]_vars

\* ------------------------------------------- the parser's specification
\* The characters sequence texts are drawn from.
Alphabet == {"0", "1", "2", "-", "+", "/", ",", " ", "x"}

StringsUpTo(n) == UNION {[1..k -> Alphabet] : k \in 0..n}

\* The state outside the variables a specification of one function works
\* on: no folder picked, no pass running.
QuietApp ==
    /\ extensions = DefaultExtensions
    /\ picked_folder = None
    /\ selected_action = "MoveToFolder"
    /\ ev_mode = "Delta"
    /\ filter_by_auto_bracket = TRUE
    /\ show_error_messagebox = FALSE
    /\ running = FALSE
    /\ total_files = 0
    /\ processed_files = 0
    /\ exposure_bracketings_found = 0
    /\ w_folder = "root"
    /\ w_action = "MoveToFolder"
    /\ w_ev_mode = "Delta"
    /\ w_filter = TRUE
    /\ entries = <<>>
    /\ files_with_metadata = <<>>
    /\ matching_sequences = <<>>
    /\ next_run = 1
    /\ fs_root = <<>>
    /\ manifest = <<>>
    /\ warnings = 0
    /\ faults = 0
    /\ threads = 0
    /\ passes = 0

InitParse ==
    /\ exposure_bias_sequence \in StringsUpTo(MaxLen)
    /\ sequence = <<>>
    /\ pc = "parse"
    /\ ev_step = 10
    /\ num_images = 3
    /\ bracket_order = "ZeroMinusPlus"
    /\ QuietApp

\* parse_exposure_sequence applied to the sequence text.
ParseCall ==
    /\ UNCHANGED settingsVars
    /\ pc \in {"parse", "reparse"}
    /\ sequence' = parse_exposure_sequence(exposure_bias_sequence)
    /\ pc' = IF pc = "parse" THEN "parsed" ELSE "reparsed"
    /\ UNCHANGED <<uiVars, sharedVars, w_folder, w_action, w_ev_mode, w_filter,
                   workVars, fsVars, warnings, threads, boundVars>>

\* The parsed values written back as the sequence text.
ApplySequence ==
    /\ UNCHANGED settingsVars
    /\ pc = "parsed"
    /\ exposure_bias_sequence' = SerializeSequence(sequence)
    /\ pc' = "reparse"
    /\ UNCHANGED <<picked_folder, selected_action, ev_mode, filter_by_auto_bracket,
                   show_error_messagebox, sharedVars, capturedVars, workVars,
                   fsVars, warnings, threads, boundVars>>

NextParse == ParseCall \/ ApplySequence

SpecParse == InitParse /\ [][NextParse]_vars

\* ---------------------------------------- the generator's specification
BracketOrders == {"ZeroMinusPlus", "MinusZeroPlus"}

\* The exposure settings as the widgets leave them, the text not yet
\* generated from them.
InitGen ==
    /\ ev_step \in 1..MaxStep
    /\ num_images \in 0..MaxImages
    /\ bracket_order \in BracketOrders
    /\ exposure_bias_sequence = <<>>
    /\ sequence = <<>>
    /\ pc = "generate"
    /\ QuietApp

\* The sequence text regenerated after a settings widget has changed.
GenerateCall ==
    /\ pc = "generate"
    /\ exposure_bias_sequence' =
          generate_exposure_sequence(ev_step, num_images, bracket_order)
    /\ pc' = "generated"
    /\ UNCHANGED <<picked_folder, selected_action, ev_mode, filter_by_auto_bracket,
                   show_error_messagebox, settingsVars, sharedVars, capturedVars,
                   workVars, fsVars, warnings, threads, boundVars>>

NextGen == GenerateCall

SpecGen == InitGen /\ [][NextGen]_vars

\* ---------------------------------------- the collector's specification
AllKinds ==
    {"ev0", "ev1", "nobias", "manual", "nomode", "undecoded", "text", "subdir",
     "zeroden"}
CollectDirectories ==
    {[i \in 1..NumEntries |-> EntryOfKind(ks[i], StemAt(i))] :
        ks \in [1..NumEntries -> AllKinds]}

\* Accepted-extension lists written in lower, upper and mixed case.
ExtensionLists ==
    {DefaultExtensions, <<Str_cr2>>, <<Str_CR2>>, <<Str_nef, Str_CR2>>,
     << <<"C", "r", "2">> >>}

\* A pass just dispatched on the root with one of the given lists of
\* accepted extensions: the worker is about to count and collect.
InitCollectWith(lists) ==
    /\ extensions \in lists
    /\ ev_step = 10
    /\ num_images = 3
    /\ bracket_order = "ZeroMinusPlus"
    /\ fs_root \in CollectDirectories
    /\ w_filter \in BOOLEAN
    /\ filter_by_auto_bracket = w_filter
    /\ exposure_bias_sequence = <<"0", ",", "0">>
    /\ sequence = parse_exposure_sequence(exposure_bias_sequence)
    /\ picked_folder = Some("root")
    /\ selected_action = "SaveSequencesToTextfile"
    /\ ev_mode = "Absolute"
    /\ show_error_messagebox = FALSE
    /\ running = TRUE
    /\ total_files = 0
    /\ processed_files = 0
    /\ exposure_bracketings_found = 0
    /\ pc = "count"
    /\ w_folder = "root"
    /\ w_action = "SaveSequencesToTextfile"
    /\ w_ev_mode = "Absolute"
    /\ entries = <<>>
    /\ files_with_metadata = <<>>
    /\ matching_sequences = <<>>
    /\ next_run = 1
    /\ manifest = <<>>
    /\ warnings = 0
    /\ faults = 0
    /\ threads = 1
    /\ passes = 1

\* The application's own list of accepted extensions.
InitCollect == InitCollectWith({DefaultExtensions})

NextCollect == WorkerCount \/ WorkerReadDir \/ WorkerCollectEntry

SpecCollect == InitCollect /\ [][NextCollect]_vars

\* count_files_in_directory and collect_files_with_metadata on any list of
\* accepted extensions.
InitExt == InitCollectWith(ExtensionLists)

NextExt == WorkerCount \/ WorkerReadDir \/ WorkerCollectEntry

SpecExt == InitExt /\ [][NextExt]_vars

\* ------------------------------------------ the matcher's specification
\* The raw EXIF bias pairs and the target values the matcher's
\* specification draws from: 2/4 and 5/10 are the same rational.
RawBiases == {None, Some(<<0, 10>>), Some(<<5, 10>>), Some(<<2, 4>>), Some(<<10, 10>>)}
TargetValues ==
    {Rational32New(0, 10), Rational32New(1, 2), Rational32New(-2, 4),
     Rational32New(1, 1)}

MatchDirectories ==
    UNION {{[i \in 1..n |-> FileEntry(StemAt(i), Str_cr2, Exif(bs[i], Some(2)))] :
               bs \in [1..n -> RawBiases]} : n \in 0..MaxFiles}
TargetSequences == UNION {[1..n -> TargetValues] : n \in 2..MaxSeqLen}

\* collect_files_with_metadata over a whole listing.
RECURSIVE CollectAll(_, _, _)
CollectAll(listing, exts, filter) ==
    IF listing = <<>> THEN <<>>
    ELSE CollectedRecord(Head(listing), exts, filter)
         \o CollectAll(Tail(listing), exts, filter)

\* A pass that has collected its files and is about to match them.
InitMatch ==
    /\ extensions = DefaultExtensions
    /\ ev_step = 10
    /\ num_images = 3
    /\ bracket_order = "ZeroMinusPlus"
    /\ fs_root \in MatchDirectories
    /\ sequence \in TargetSequences
    /\ w_ev_mode \in EvModes
    /\ ev_mode = w_ev_mode
    /\ exposure_bias_sequence = SerializeSequence(sequence)
    /\ files_with_metadata = CollectAll(fs_root, DefaultExtensions, FALSE)
    /\ picked_folder = Some("root")
    /\ selected_action = "SaveSequencesToTextfile"
    /\ filter_by_auto_bracket = FALSE
    /\ show_error_messagebox = FALSE
    /\ running = TRUE
    /\ total_files = Len(fs_root)
    /\ processed_files = Len(fs_root)
    /\ exposure_bracketings_found = 0
    /\ pc = "match"
    /\ w_folder = "root"
    /\ w_action = "SaveSequencesToTextfile"
    /\ w_filter = FALSE
    /\ entries = <<>>
    /\ matching_sequences = <<>>
    /\ next_run = 1
    /\ manifest = <<>>
    /\ warnings = 0
    /\ faults = 0
    /\ threads = 1
    /\ passes = 1

NextMatch == WorkerMatch

SpecMatch == InitMatch /\ [][NextMatch]_vars

\* ------------------------------------------------- properties: matcher
Range(f) == {f[i] : i \in DOMAIN f}
Min(S) == CHOOSE x \in S : \A y \in S : x <= y
Max(S) == CHOOSE x \in S : \A y \in S : x >= y

MatchDone == pc \in {"act", "finish"}
Emitted(k) == [offset |-> k, len |-> Len(sequence)] \in Range(matching_sequences)
HasZero(seq) == \E i \in 1..Len(seq) : seq[i][1] = 0

\* The raw EXIF bias pair of the file at a path, as the directory holds it.
RawBiasAt(path) ==
    LET e == CHOOSE e \in Range(fs_root) : e.is_file /\ PathOf(e) = path
    IN  Unwrap(e.exif).bias

\* a = b as rationals, by cross-multiplication.
CrossEq(a, b) == a[1] * b[2] = b[1] * a[2]
\* a - base = t as rationals, by cross-multiplication.
DiffEq(a, base, t) ==
    (a[1] * base[2] - base[1] * a[2]) * t[2] = t[1] * (a[2] * base[2])

\* C1: in Absolute mode the window at offset k is emitted if and only if
\* every record k+i of it has a bias present and equal as a rational
\* (1/2 equals 2/4) to target[i]; a window with an absent bias is never
\* emitted.
C1_AbsoluteExact ==
    (MatchDone /\ w_ev_mode = "Absolute") =>
        \A k \in 0..Len(files_with_metadata) :
            Emitted(k) <=>
                /\ k + Len(sequence) <= Len(files_with_metadata)
                /\ \A i \in 1..Len(sequence) :
                      LET raw == RawBiasAt(files_with_metadata[k + i].path)
                      IN  IsSome(raw) /\ CrossEq(Unwrap(raw), sequence[i])

\* A window matched in Absolute mode on a bias stored as 2/4.
C1_Witness ==
    /\ MatchDone
    /\ w_ev_mode = "Absolute"
    /\ \E r \in Range(matching_sequences) :
          RawBiasAt(files_with_metadata[r.offset + 1].path) = Some(<<2, 4>>)

\* C2: in Delta mode with a zero in the target, z the index of the first
\* zero, the window at offset k is emitted if and only if the record at
\* position z has a bias (the base), every record has a bias, and every
\* bias minus the base equals target[i] exactly.
C2_DeltaExact ==
    (MatchDone /\ w_ev_mode = "Delta" /\ HasZero(sequence)) =>
        LET z == Min({i \in 1..Len(sequence) : sequence[i][1] = 0})
        IN  \A k \in 0..Len(files_with_metadata) :
                Emitted(k) <=>
                    /\ k + Len(sequence) <= Len(files_with_metadata)
                    /\ LET base == RawBiasAt(files_with_metadata[k + z].path)
                       IN  /\ IsSome(base)
                           /\ \A i \in 1..Len(sequence) :
                                 LET raw == RawBiasAt(files_with_metadata[k + i].path)
                                 IN  /\ IsSome(raw)
                                     /\ DiffEq(Unwrap(raw), Unwrap(base), sequence[i])

\* A window matched in Delta mode whose zero is not the first entry and
\* whose base is not zero.
C2_Witness ==
    /\ MatchDone
    /\ w_ev_mode = "Delta"
    /\ HasZero(sequence)
    /\ sequence[1][1] # 0
    /\ \E r \in Range(matching_sequences) :
          LET z == Min({i \in 1..Len(sequence) : sequence[i][1] = 0})
          IN  Unwrap(files_with_metadata[r.offset + z].exposure_bias)[1] # 0

\* The file list with c added to every present bias.
RatAdd(a, c) == Rational32New(a[1] * c[2] + c[1] * a[2], a[2] * c[2])
ShiftFiles(files, c) ==
    [i \in 1..Len(files) |->
        [files[i] EXCEPT !.exposure_bias =
            IF @ = None THEN None ELSE Some(RatAdd(Unwrap(@), c))]]
Shifts == {<<1, 2>>, <<-1, 3>>, <<3, 1>>}

\* C3: in Delta mode with a zero in the target, adding one constant to
\* every present bias leaves the matched window offsets unchanged.
C3_ShiftInvariant ==
    (MatchDone /\ w_ev_mode = "Delta" /\ HasZero(sequence)) =>
        \A c \in Shifts :
            find_matching_sequences(ShiftFiles(files_with_metadata, c),
                                    sequence, "Delta") = matching_sequences

\* A Delta match on a target with a nonzero entry, in a list that also
\* holds a record without bias.
C3_Witness ==
    /\ MatchDone
    /\ w_ev_mode = "Delta"
    /\ HasZero(sequence)
    /\ \E i \in 1..Len(sequence) : sequence[i][1] # 0
    /\ matching_sequences # <<>>
    /\ \E i \in 1..Len(files_with_metadata) :
          files_with_metadata[i].exposure_bias = None

\* C4: the result holds, by increasing offset and once each, exactly the
\* windows of N consecutive records that satisfy the predicate, overlapping
\* ones included; it is empty when the list has fewer than N records.
C4_EveryWindow ==
    MatchDone =>
        /\ \A i \in 1..Len(matching_sequences) :
              /\ matching_sequences[i].len = Len(sequence)
              /\ matching_sequences[i].offset >= 0
              /\ matching_sequences[i].offset + Len(sequence)
                    <= Len(files_with_metadata)
        /\ \A i \in 1..(Len(matching_sequences) - 1) :
              matching_sequences[i].offset < matching_sequences[i + 1].offset
        /\ \A k \in 0..(Len(files_with_metadata) - Len(sequence)) :
              Emitted(k) <=>
                  WindowMatches(Slice(files_with_metadata,
                                      [offset |-> k, len |-> Len(sequence)]),
                                sequence, w_ev_mode)
        /\ Len(files_with_metadata) < Len(sequence) => matching_sequences = <<>>

\* Two overlapping windows, at offsets 0 and 1, both returned.
C4_Witness ==
    /\ MatchDone
    /\ Len(matching_sequences) = 2
    /\ matching_sequences[1].offset = 0
    /\ matching_sequences[2].offset = 1
    /\ Len(sequence) >= 2

\* -------------------------------------------------- properties: parser
\* The comma-separated tokens of a text, by the positions of its commas.
Commas(s) == {i \in 1..Len(s) : s[i] = ","}
NumTokens(s) == Cardinality(Commas(s)) + 1
NthComma(s, n) ==
    CHOOSE i \in Commas(s) : Cardinality({c \in Commas(s) : c < i}) = n - 1
Token(s, j) ==
    LET from == IF j = 1 THEN 1 ELSE NthComma(s, j - 1) + 1
        to   == IF j = NumTokens(s) THEN Len(s) ELSE NthComma(s, j) - 1
    IN  SubSeq(s, from, to)
Trimmed(t) ==
    LET ns == {i \in 1..Len(t) : t[i] # " "}
    IN  IF ns = {} THEN <<>> ELSE SubSeq(t, Min(ns), Max(ns))

\* An integer as text: an optional sign and at least one digit.
IsIntText(t) ==
    /\ t # <<>>
    /\ LET first == IF t[1] \in {"+", "-"} THEN 2 ELSE 1
       IN  /\ first <= Len(t)
           /\ \A i \in first..Len(t) : t[i] \in Digits
RECURSIVE Pow10(_)
Pow10(k) == IF k = 0 THEN 1 ELSE 10 * Pow10(k - 1)
RECURSIVE DigitSum(_, _)
DigitSum(t, i) ==
    IF i > Len(t) THEN 0
    ELSE (IF t[i] \in Digits THEN DigitVal(t[i]) * Pow10(Len(t) - i) ELSE 0)
         + DigitSum(t, i + 1)
IntValue(t) == IF t[1] = "-" THEN -DigitSum(t, 1) ELSE DigitSum(t, 1)

\* The slash positions that split a token into two integers, the second
\* not zero.
FractionSlashes(t) ==
    {k \in 1..Len(t) :
        /\ t[k] = "/"
        /\ IsIntText(SubSeq(t, 1, k - 1))
        /\ IsIntText(SubSeq(t, k + 1, Len(t)))
        /\ IntValue(SubSeq(t, k + 1, Len(t))) # 0}
TokenValid(t) == IsIntText(t) \/ FractionSlashes(t) # {}
\* The numerator and denominator a valid token is written with.
TokenPair(t) ==
    IF IsIntText(t) THEN <<IntValue(t), 1>>
    ELSE LET k == CHOOSE k \in FractionSlashes(t) : TRUE
         IN  <<IntValue(SubSeq(t, 1, k - 1)), IntValue(SubSeq(t, k + 1, Len(t)))>>
ValidTokens(s) == {j \in 1..NumTokens(s) : TokenValid(Trimmed(Token(s, j)))}

\* C9: parsing the parsed values written back as text (joined by ", ")
\* yields the same list of rationals.
C9_ReparseSame == [][pc = "reparse" => sequence' = sequence]_vars

\* A text whose first value is not written in lowest terms, parsed,
\* written back and parsed again.
C9_Witness ==
    /\ pc = "reparsed"
    /\ sequence = << <<1, 2>>, <<1, 1>> >>

\* C10: the result holds, in token order, one rational per comma-separated
\* token that, trimmed, is an integer or int/int with a nonzero
\* denominator, equal to what the token denotes; every other token is
\* dropped.
C10_TokenWise ==
    pc = "parsed" =>
        LET s == exposure_bias_sequence
        IN  /\ Len(sequence) = Cardinality(ValidTokens(s))
            /\ \A j \in ValidTokens(s) :
                  LET pos == Cardinality({i \in ValidTokens(s) : i <= j})
                      r   == sequence[pos]
                  IN  /\ r[2] > 0
                      /\ CrossEq(r, TokenPair(Trimmed(Token(s, j))))

\* Three tokens of which the middle one is dropped and a padded one kept.
C10_Witness ==
    /\ pc = "parsed"
    /\ NumTokens(exposure_bias_sequence) = 3
    /\ ValidTokens(exposure_bias_sequence) = {1, 3}
    /\ Len(sequence) = 2
    /\ exposure_bias_sequence[1] = " "

\* ----------------------------------------------- properties: generator
\* The numerator/denominator pairs the tokens of a text are written with.
WrittenPairs(s) == [j \in 1..NumTokens(s) |-> TokenPair(Trimmed(Token(s, j)))]
AllTokensValid(s) == ValidTokens(s) = 1..NumTokens(s)
ZeroMinusPlusOffset(k) ==
    IF k = 1 THEN 0 ELSE IF k % 2 = 0 THEN -(k \div 2) ELSE (k - 1) \div 2
MinusZeroPlusOffset(k, n) == (k - 1) - ((n - 1) \div 2)
Generated(order) == generate_exposure_sequence(ev_step, num_images, order)

\* C11: for an odd image count n and a step of s tenths the generator
\* writes exactly n values over 10: 0, -s, +s, -2s, +2s, ... under
\* ZeroMinusPlus, and -((n-1)/2)s .. +((n-1)/2)s ascending under
\* MinusZeroPlus; the two orders write the same values, one of them zero;
\* for n = 0 the text is empty.
C11_GeneratedValues ==
    pc = "generated" =>
        LET s == exposure_bias_sequence
            n == num_images
        IN  /\ n = 0 => s = <<>>
            /\ n % 2 = 1 =>
                  /\ NumTokens(s) = n
                  /\ AllTokensValid(s)
                  /\ \A k \in 1..n :
                        WrittenPairs(s)[k] =
                           << ev_step * (IF bracket_order = "ZeroMinusPlus"
                                         THEN ZeroMinusPlusOffset(k)
                                         ELSE MinusZeroPlusOffset(k, n)),
                              10 >>
                  /\ Cardinality({k \in 1..n : WrittenPairs(s)[k][1] = 0}) = 1
                  /\ Cardinality(Range(WrittenPairs(s))) = n
                  /\ Range(WrittenPairs(Generated("ZeroMinusPlus")))
                        = Range(WrittenPairs(Generated("MinusZeroPlus")))

\* Step 1.0 and five images in the order zero, minus, plus:
\* 0/10, -10/10, 10/10, -20/10, 20/10.
C11_Witness ==
    /\ pc = "generated"
    /\ ev_step = 10 /\ num_images = 5 /\ bracket_order = "ZeroMinusPlus"
    /\ WrittenPairs(exposure_bias_sequence)
          = << <<0, 10>>, <<-10, 10>>, <<10, 10>>, <<-20, 10>>, <<20, 10>> >>

\* --------------------------------------------- properties: application
\* C5: in Delta mode with a target that has no zero, the matcher returns no
\* run whatever the files, the pass executes no action and the
\* found-brackets counter stays 0.
C5_DeltaWithoutZero ==
    (sequence # <<>> /\ w_ev_mode = "Delta" /\ ~HasZero(sequence)) =>
        /\ matching_sequences = <<>>
        /\ exposure_bracketings_found = 0
        /\ pc # "act"

\* A Delta pass without a zero that finished matching files whose biases
\* all equal the target's values.
C5_Witness ==
    /\ pc = "finish"
    /\ w_ev_mode = "Delta"
    /\ sequence # <<>>
    /\ ~HasZero(sequence)
    /\ Len(files_with_metadata) >= Len(sequence)
    /\ \A i \in 1..Len(sequence) :
          files_with_metadata[i].exposure_bias = Some(sequence[i])

ParsedLen == Len(parse_exposure_sequence(exposure_bias_sequence))

\* C6: Start with a text that parses to fewer than two values dispatches
\* nothing: the flag stays false, the counters and the filesystem keep
\* their values, and the error message is raised; with two or more values
\* the pass is dispatched.  A click on Start is the step taken with the
\* button enabled that neither edits the text nor closes the message.
StartClick ==
    /\ StartEnabled
    /\ exposure_bias_sequence' = exposure_bias_sequence
    /\ ~(show_error_messagebox /\ ~show_error_messagebox')
C6_RejectShort ==
    [][ StartClick =>
          /\ ParsedLen < 2 =>
                /\ running' = FALSE
                /\ threads' = threads
                /\ pc' = pc
                /\ total_files' = total_files
                /\ processed_files' = processed_files
                /\ exposure_bracketings_found' = exposure_bracketings_found
                /\ fs_root' = fs_root
                /\ manifest' = manifest
                /\ show_error_messagebox'
          /\ ParsedLen >= 2 =>
                /\ running' = TRUE
                /\ threads' = threads + 1
                /\ pc' = "count"
                /\ show_error_messagebox' = show_error_messagebox
      ]_vars

\* Start refused on a text of one value after an earlier pass has left its
\* counts: the message is up, nothing runs, the counts are still shown.
C6_Witness ==
    /\ show_error_messagebox
    /\ ParsedLen = 1
    /\ ~running
    /\ threads = 0
    /\ passes = 1
    /\ processed_files > 0
    /\ exposure_bracketings_found > 0

\* The step that executes the action on the next matched run, its files,
\* their paths and the folder named after the first file's stem.
RunStep == pc = "act" /\ next_run' = next_run + 1
CurRunFiles == Slice(files_with_metadata, matching_sequences[next_run])
CurRunPaths == {CurRunFiles[i].path : i \in 1..Len(CurRunFiles)}
CurFolder == CurRunFiles[1].path.stem
IsFolder(root, name) ==
    \E e \in Range(root) : ~e.is_file /\ e.stem = name /\ e.ext = None
FolderChildren(root, name) ==
    (CHOOSE e \in Range(root) : ~e.is_file /\ e.stem = name /\ e.ext = None).children
MovedAsRun ==
    /\ IsFolder(fs_root', CurFolder)
    /\ FolderChildren(fs_root', CurFolder) = CurRunPaths
    /\ \A p \in CurRunPaths : ~FileExists(fs_root', p)

\* C7: after MoveToFolder on any matched run (no entry named after the first
\* file's stem being there), the folder exists, holds exactly the run's
\* files, and none of them is at its original path.  Stated for the passes
\* in which the filesystem refuses nothing, where the claim leaves no room.
C7_AsStated ==
    [][ (/\ RunStep
         /\ w_action = "MoveToFolder"
         /\ ~NameExists(fs_root, CurFolder)
         /\ faults' = 0)
            => MovedAsRun ]_vars

IsPrefix(a, b) == Len(a) <= Len(b) /\ SubSeq(b, 1, Len(a)) = a
RunBlock == [i \in 1..Len(CurRunFiles) |-> Some(CurRunFiles[i].path)] \o <<None>>

\* C8 as stated: every executed run appends its N paths and one blank
\* line to sequences.txt.
C8_AsStated ==
    [][ (RunStep /\ w_action = "SaveSequencesToTextfile")
            => manifest' = manifest \o RunBlock ]_vars

\* C8, amended: every executed run whose open and writes all succeed (no
\* warning logged) appends its N paths in window order and one blank line;
\* whatever fails, the previous content stays an unmodified prefix.
C8_AppendWhenNoWarning ==
    [][ /\ IsPrefix(manifest, manifest')
        /\ (RunStep /\ w_action = "SaveSequencesToTextfile" /\ warnings' = warnings)
              => manifest' = manifest \o RunBlock ]_vars

\* Two runs' blocks in sequences.txt, each closed by a blank line.
C8_Witness ==
    /\ w_action = "SaveSequencesToTextfile"
    /\ warnings = 0
    /\ faults = 0
    /\ Len(manifest) = 2 * (Len(sequence) + 1)
    /\ manifest[Len(sequence) + 1] = None
    /\ manifest[Len(manifest)] = None
    /\ \A i \in 1..Len(sequence) : manifest[i] # None

\* The worker has nothing left to do: the root was missing, or the listing
\* is consumed and every matched run has had its action.
PassOver ==
    \/ w_folder # "root"
    \/ /\ entries = <<>>
       /\ next_run = Len(matching_sequences) + 1
       /\ exposure_bracketings_found = Len(matching_sequences)

\* C12: at most one worker is active at any time; the running flag is set
\* in the step that dispatches the worker and is true whenever a worker is
\* active; Start dispatches only from a state where the flag is false; the
\* flag goes from true to false only in the worker's final step, after the
\* scan, the match and all actions.
C12_OneWorker ==
    [][ /\ threads' <= 1
        /\ threads' = 1 => running'
        /\ pc' \notin {"idle", "panicked"} => threads' = 1
        /\ threads' > threads => ~running /\ running' /\ threads = 0
        /\ (running /\ ~running') =>
              /\ pc = "finish" /\ pc' = "idle"
              /\ threads = 1 /\ threads' = 0
              /\ PassOver
      ]_vars

\* The worker of a second pass executing its actions.
C12_Witness ==
    /\ passes = 2
    /\ threads = 1
    /\ running
    /\ pc = "act"
    /\ next_run = 2

\* C13: every dispatched pass completes and clears the running flag, for
\* every outcome of the environment, and nothing panics the worker.  Only
\* the worker clears the flag, so while the flag is set the worker must be
\* alive to clear it.
C13_WorkerSurvives == running => (threads = 1 /\ pc # "panicked")

\* C14: the step of the collector's loop on a directory entry increments
\* the processed-files counter exactly when the entry is a regular file
\* with an accepted extension, and leaves it alone for every other entry;
\* hence processed never exceeds total while nothing fails.
C14_CountsQualifying ==
    [][ pc = "collect" =>
          /\ processed_files' = processed_files
                + (IF CountsAsFile(Head(entries), extensions) THEN 1 ELSE 0)
          /\ faults' = 0 => processed_files' <= total_files'
      ]_vars

\* ----------------------------------------------- properties: collector
\* Having an accepted extension: equal to one of the list ignoring ASCII
\* case.
Accepted(e) ==
    /\ e.ext # None
    /\ \E i \in 1..Len(extensions) :
          ToLowercase(extensions[i]) = ToLowercase(Unwrap(e.ext))
\* The positions of the listing whose entry is to be returned.
Qualifying ==
    {i \in 1..Len(fs_root) :
        LET e == fs_root[i]
        IN  /\ e.is_file
            /\ Accepted(e)
            /\ e.exif # None
            /\ w_filter => Unwrap(e.exif).mode = Some(2)}
NthQualifying(k) ==
    CHOOSE i \in Qualifying : Cardinality({j \in Qualifying : j <= i}) = k

\* C15: when the listing has been read and every file examined, the
\* collector has returned, in listing order, exactly the regular files
\* with an accepted extension whose metadata was extracted and, with the
\* filter on, whose mode is present and 2; a file without a bias is
\* returned with the bias absent.
C15_CollectedExactly ==
    (pc = "match" /\ faults = 0) =>
        /\ Len(files_with_metadata) = Cardinality(Qualifying)
        /\ \A k \in 1..Len(files_with_metadata) :
              LET f == files_with_metadata[k]
                  x == Unwrap(fs_root[NthQualifying(k)].exif)
              IN  /\ f.path = PathOf(fs_root[NthQualifying(k)])
                  /\ f.exposure_mode = x.mode
                  /\ (f.exposure_bias = None) <=> (x.bias = None)
                  /\ x.bias # None =>
                        CrossEq(Unwrap(f.exposure_bias), Unwrap(x.bias))
                  /\ w_filter => f.exposure_mode = Some(2)

\* With the filter on, of a bracketed file without a bias, a manual file
\* and a bracketed file, the first and the last are returned.
C15_Witness ==
    /\ pc = "match"
    /\ faults = 0
    /\ w_filter
    /\ Len(fs_root) = 3
    /\ Len(files_with_metadata) = 2
    /\ files_with_metadata[1].exposure_bias = None
    /\ files_with_metadata[1].path.stem = "a"
    /\ files_with_metadata[2].path.stem = "c"
    /\ fs_root[2].exif # None
    /\ Unwrap(fs_root[2].exif).mode = Some(1)

\* C16: for every list of accepted extensions and every regular file, the
\* collector treats the file as a candidate exactly when the counter
\* counts it, namely when its extension is an accepted one ignoring ASCII
\* case.  A decodable candidate is pushed when the filter is off; the
\* count of a one-step listing is read off count_files_in_directory.
C16_SameExtensionTest ==
    [][ (/\ pc = "collect"
         /\ Head(entries).is_file
         /\ Head(entries).exif # None
         /\ ~w_filter
         /\ faults' = faults
         /\ pc' # "panicked")
        => /\ (Len(files_with_metadata') = Len(files_with_metadata) + 1)
                <=> Accepted(Head(entries))
           /\ (count_files_in_directory(<<Head(entries)>>, TRUE, extensions) = 1)
                <=> Accepted(Head(entries))
      ]_vars

\* ------------------------------------------------ properties: executor
FilesAt(root) == {PathOf(e) : e \in {x \in Range(root) : x.is_file}}
Folders(root) == {e \in Range(root) : ~e.is_file}
\* The step creates the folder of the current run.
FolderCreated == ~NameExists(fs_root, CurFolder) /\ IsFolder(fs_root', CurFolder)

\* C17: a failure while acting on one run never stops the pass.  Each
\* step of the action loop increments the found counter and goes on to the
\* next run in window order, whatever the action's outcome.  MoveToFolder:
\* when the folder is not created nothing is moved; when it is, every
\* file of the run is moved except those whose own rename fails (one
\* warning each), and what earlier runs moved stays where it is.
\* SaveSequencesToTextfile: a failed open or write touches no raw file and
\* none of the lines already written.
C17_FailuresSkipOnly ==
    [][ RunStep =>
          /\ exposure_bracketings_found' = exposure_bracketings_found + 1
          /\ pc' = IF next_run < Len(matching_sequences) THEN "act" ELSE "finish"
          /\ matching_sequences' = matching_sequences
          /\ files_with_metadata' = files_with_metadata
          /\ running'
          /\ w_action = "MoveToFolder" =>
                /\ manifest' = manifest
                /\ ~FolderCreated =>
                      fs_root' = fs_root /\ warnings' = warnings + 1
                /\ FolderCreated =>
                      LET moved == FolderChildren(fs_root', CurFolder)
                      IN  /\ moved \subseteq CurRunPaths
                          /\ FilesAt(fs_root') = FilesAt(fs_root) \ moved
                          /\ Cardinality(CurRunPaths \ moved) = warnings' - warnings
                /\ \A e \in Folders(fs_root) :
                      \E e2 \in Folders(fs_root') :
                          e2.stem = e.stem /\ e.children \subseteq e2.children
          /\ w_action = "SaveSequencesToTextfile" =>
                /\ FilesAt(fs_root') \ {ManifestPath} = FilesAt(fs_root) \ {ManifestPath}
                /\ Folders(fs_root') = Folders(fs_root)
                /\ IsPrefix(manifest, manifest')
      ]_vars

\* A pass over a, b, c with the runs [a, b] and [b, c]: the first rename of
\* the first run was refused, the second file was still moved, and the
\* second run then had its action too.
C17_Witness ==
    /\ pc = "finish"
    /\ w_action = "MoveToFolder"
    /\ passes = 1
    /\ faults = 1
    /\ exposure_bracketings_found = 2
    /\ IsFolder(fs_root, "a") /\ IsFolder(fs_root, "b")
    /\ Cardinality(FolderChildren(fs_root, "a")) = 1
    /\ Cardinality(FolderChildren(fs_root, "b")) = 1
    /\ FilesAt(fs_root) = {[stem |-> "a", ext |-> Some(Str_cr2)]}

\* ------------------------------------------------ properties: counters
CounterDecreases ==
    \/ total_files' < total_files
    \/ processed_files' < processed_files
    \/ exposure_bracketings_found' < exposure_bracketings_found

\* C18: in no step taken while the running flag is set does any of the
\* three counters decrease; a counter decreases only in the Start step of
\* an accepted pass, which is taken with no worker active, sets all three
\* to 0 and dispatches the worker.
C18_CountersMonotone ==
    [][ /\ running => ~CounterDecreases
        /\ CounterDecreases =>
              /\ ~running /\ running'
              /\ threads = 0 /\ threads' = 1
              /\ pc' = "count"
              /\ total_files' = 0
              /\ processed_files' = 0
              /\ exposure_bracketings_found' = 0
      ]_vars

\* A second pass, begun after a first one that found runs, counting again
\* from zero.
C18_Witness ==
    /\ passes = 2
    /\ running
    /\ pc = "collect"
    /\ total_files = 3
    /\ processed_files = 1
    /\ exposure_bracketings_found = 0
    /\ manifest # <<>>

\* ---------------------------------------------- properties: placement
\* A MoveToFolder pass on the root that has executed all its actions.
MovePassOver == pc = "finish" /\ w_action = "MoveToFolder" /\ w_folder = "root"
CollectedPaths == {files_with_metadata[i].path : i \in 1..Len(files_with_metadata)}
FoldersHolding(root, p) == {e \in Folders(root) : p \in e.children}
\* The file is at exactly one place: its original path, or one folder.
AtOnePlace(root, p) ==
    IF FileExists(root, p) THEN FoldersHolding(root, p) = {}
    ELSE Cardinality(FoldersHolding(root, p)) = 1
\* The matched runs that contain the file, and the folder of a run.
RunsWith(p) ==
    {k \in 1..Len(matching_sequences) :
        \E i \in 1..matching_sequences[k].len :
            files_with_metadata[matching_sequences[k].offset + i].path = p}
RunFolder(k) == files_with_metadata[matching_sequences[k].offset + 1].path.stem
\* In a first pass the folders named after a run's first file are those the
\* pass created.
RunsWithFolder(root, p) == {k \in RunsWith(p) : IsFolder(root, RunFolder(k))}

\* C19 as stated: after a complete MoveToFolder pass, overlapping runs and
\* failed creations or moves included, every collected file is at its
\* original path or in exactly one run folder, the folder of the earliest
\* executed run that contained it and whose folder was created.
C19_AsStated ==
    (MovePassOver /\ passes = 1) =>
        \A p \in CollectedPaths :
            /\ AtOnePlace(fs_root, p)
            /\ \A e \in FoldersHolding(fs_root, p) :
                  /\ RunsWithFolder(fs_root, p) # {}
                  /\ e.stem = RunFolder(Min(RunsWithFolder(fs_root, p)))

\* C19, amended: after a complete MoveToFolder pass every collected file
\* is at its original path or in exactly one folder, the folder of a run
\* that contained it; and in every step a file that is in a folder stays
\* in that folder (it is moved at most once, never lost or duplicated).
C19_OnePlace ==
    [][ /\ MovePassOver' =>
              \A p \in CollectedPaths' :
                  /\ AtOnePlace(fs_root', p)
                  /\ \A e \in FoldersHolding(fs_root', p) :
                        \E k \in RunsWith(p)' : e.stem = RunFolder(k)'
        /\ \A e \in Folders(fs_root) : \A p \in e.children :
              /\ ~FileExists(fs_root', p)
              /\ \A e2 \in FoldersHolding(fs_root', p) : e2.stem = e.stem
              /\ FoldersHolding(fs_root', p) # {}
      ]_vars

\* Runs [a, b] and [b, c]: the rename of b in the first run was refused, so
\* b has gone to the folder of the second run.
C19_Witness ==
    /\ MovePassOver
    /\ passes = 1
    /\ faults = 1
    /\ Len(matching_sequences) = 2
    /\ IsFolder(fs_root, "a") /\ IsFolder(fs_root, "b")
    /\ Cardinality(FolderChildren(fs_root, "a")) = 1
    /\ Cardinality(FolderChildren(fs_root, "b")) = 2
    /\ FilesAt(fs_root) = {}

====
